---- MODULE Spec2Model ----
(***************************************************************************)
(* View Type API (src/main.py): classification of construction-drawing     *)
(* pages by regex scoring of the pooled text plus layout heuristics, and   *)
(* extraction of the drawing scale from the text.                          *)
(*                                                                         *)
(* Texts are TLA+ strings; the regular expressions of the source are       *)
(* modelled by scanners that do what re.findall does for those patterns    *)
(* (leftmost match, ordered alternation, greedy digit runs,                *)
(* non-overlapping matches).                                               *)
(*                                                                         *)
(* Scores are kept in tenths (0.3 is 3, 0.2 is 2) and the reported         *)
(* confidence in hundredths.  The float sums the code can form are         *)
(* 0.3k and 0.3k + 0.2 for k <= 4; as IEEE doubles they are ordered and    *)
(* tied exactly like the tenths, and round(min(x, 1.0), 2) of each is the  *)
(* tenth it stands for.                                                    *)
(***************************************************************************)
EXTENDS Integers, Sequences, FiniteSets, Bags, TLC

(***************************************************************************)
(* Bounds of the model.                                                    *)
(***************************************************************************)
MaxTexts == 2
MaxPages == 3

(***************************************************************************)
(* Characters and numbers.                                                 *)
(***************************************************************************)
Char(s, i) == IF i >= 1 /\ i <= Len(s) THEN SubSeq(s, i, i) ELSE ""

UpperChars == "ABCDEFGHIJKLMNOPQRSTUVWXYZ"
LowerChars == "abcdefghijklmnopqrstuvwxyz"
DigitChars == "0123456789"

IsDigit(c) == c \in {"0", "1", "2", "3", "4", "5", "6", "7", "8", "9"}
IsSpace(c) == c = " "

DigitVal(c) == (CHOOSE d \in 1..10 : Char(DigitChars, d) = c) - 1

LowerChar(c) ==
    IF \E k \in 1..26 : Char(UpperChars, k) = c
    THEN Char(LowerChars, CHOOSE k \in 1..26 : Char(UpperChars, k) = c)
    ELSE c

RECURSIVE LowerFrom(_, _)
LowerFrom(s, i) ==
    IF i > Len(s) THEN "" ELSE LowerChar(Char(s, i)) \o LowerFrom(s, i + 1)

\* str.lower()
Lower(s) == LowerFrom(s, 1)

RECURSIVE JoinFrom(_, _, _)
JoinFrom(sep, strs, i) ==
    IF i > Len(strs) THEN ""
    ELSE IF i = Len(strs) THEN strs[i]
    ELSE strs[i] \o sep \o JoinFrom(sep, strs, i + 1)

JoinNoSeparator(sep, strs) == JoinFrom("", strs, 1)

\* sep.join(strs)
Join(sep, strs) == JoinFrom(sep, strs, 1)

RECURSIVE MapLower(_)
MapLower(strs) ==
    IF strs = <<>> THEN <<>> ELSE <<Lower(Head(strs))>> \o MapLower(Tail(strs))

\* int(s) of a digit string
RECURSIVE ParseIntFrom(_, _, _)
ParseIntFrom(s, i, acc) ==
    IF i > Len(s) THEN acc
    ELSE ParseIntFrom(s, i + 1, 10 * acc + DigitVal(Char(s, i)))

ParseInt(s) == ParseIntFrom(s, 1, 0)

\* str(n) of a non-negative integer, as an f-string formats it
RECURSIVE IntToStr(_)
IntToStr(n) ==
    IF n < 10 THEN Char(DigitChars, n + 1)
    ELSE IntToStr(n \div 10) \o Char(DigitChars, (n % 10) + 1)

RECURSIVE Gcd(_, _)
Gcd(a, b) == IF b = 0 THEN a ELSE Gcd(b, a % b)

\* the float a / b (b > 0), as the reduced fraction it rounds
Quotient(a, b) == IF a = 0 THEN <<0, 1>> ELSE <<a \div Gcd(a, b), b \div Gcd(a, b)>>

RECURSIVE Pow10(_)
Pow10(k) == IF k = 0 THEN 1 ELSE 10 * Pow10(k - 1)

SetMin(S) == CHOOSE m \in S : \A x \in S : m <= x

(***************************************************************************)
(* Scanners.                                                               *)
(***************************************************************************)
StartsWithAt(s, i, lit) ==
    /\ i + Len(lit) - 1 <= Len(s)
    /\ SubSeq(s, i, i + Len(lit) - 1) = lit

RECURSIVE DigitsEnd(_, _)
\* the index after the longest run of digits that starts at i (greedy \d*)
DigitsEnd(s, i) == IF IsDigit(Char(s, i)) THEN DigitsEnd(s, i + 1) ELSE i

RECURSIVE SpacesEnd(_, _)
\* the index after the longest run of whitespace that starts at i (greedy \s*)
SpacesEnd(s, i) == IF IsSpace(Char(s, i)) THEN SpacesEnd(s, i + 1) ELSE i

\* the first alternative of a pattern lit1|lit2|... that matches at i, or 0
FirstAlternative(alts, s, i) ==
    LET c    == SubSeq(s, i, i)
        hits == {k \in 1..Len(alts) :
                    SubSeq(alts[k], 1, 1) = c /\ StartsWithAt(s, i, alts[k])}
    IN  IF hits = {} THEN 0 ELSE SetMin(hits)

RECURSIVE FindAllFrom(_, _, _)
FindAllFrom(alts, s, i) ==
    IF i > Len(s) THEN <<>>
    ELSE LET k == FirstAlternative(alts, s, i)
         IN  IF k = 0 THEN FindAllFrom(alts, s, i + 1)
             ELSE <<alts[k]>> \o FindAllFrom(alts, s, i + Len(alts[k]))

\* re.findall(pattern, s) for a pattern that is an alternation of literals
FindAll(alts, s) == FindAllFrom(alts, s, 1)

RECURSIVE FindAllOneToNFrom(_, _)
FindAllOneToNFrom(s, i) ==
    IF i > Len(s) THEN <<>>
    ELSE IF StartsWithAt(s, i, "1:") /\ IsDigit(Char(s, i + 2))
         THEN LET e == DigitsEnd(s, i + 2)
              IN  <<SubSeq(s, i + 2, e - 1)>> \o FindAllOneToNFrom(s, e)
         ELSE FindAllOneToNFrom(s, i + 1)

\* re.findall(r"1:(\d+)", s): the captured digit strings
FindAllOneToN(s) == FindAllOneToNFrom(s, 1)

RECURSIVE FindAllWordScaleFrom(_, _, _)
FindAllWordScaleFrom(word, s, i) ==
    IF i > Len(s) THEN <<>>
    ELSE LET j  == SpacesEnd(s, i + Len(word))
             d1 == DigitsEnd(s, j)
             d2 == DigitsEnd(s, d1 + 1)
         IN  IF /\ i + Len(word) - 1 <= Len(s)
                /\ LowerChar(SubSeq(s, i, i)) = SubSeq(word, 1, 1)
                /\ Lower(SubSeq(s, i, i + Len(word) - 1)) = word
                /\ d1 > j
                /\ Char(s, d1) = ":"
                /\ d2 > d1 + 1
             THEN <<<<SubSeq(s, j, d1 - 1), SubSeq(s, d1 + 1, d2 - 1)>>>>
                      \o FindAllWordScaleFrom(word, s, d2)
             ELSE FindAllWordScaleFrom(word, s, i + 1)

\* re.findall(word + r"\s*(\d+):(\d+)", s, re.IGNORECASE): pairs of captures
FindAllWordScale(word, s) == FindAllWordScaleFrom(word, s, 1)

RECURSIVE FindAllDimensionFrom(_, _, _, _)
FindAllDimensionFrom(unit, decimal, s, i) ==
    IF i > Len(s) THEN <<>>
    ELSE LET e1 == DigitsEnd(s, i)
             e2 == IF decimal /\ Char(s, e1) \in {",", "."} THEN e1 + 1 ELSE e1
             e3 == IF decimal THEN DigitsEnd(s, e2) ELSE e1
             j  == SpacesEnd(s, e3)
         IN  IF e1 > i /\ StartsWithAt(s, j, unit)
             THEN <<SubSeq(s, i, e3 - 1)>>
                      \o FindAllDimensionFrom(unit, decimal, s, j + Len(unit))
             ELSE FindAllDimensionFrom(unit, decimal, s, i + 1)

\* re.findall(r"(\d+)\s*mm", s), r"(\d+)\s*cm" and r"(\d+[,.]?\d*)\s*m"
FindAllDimension(unit, decimal, s) == FindAllDimensionFrom(unit, decimal, s, 1)

\* symbol in s
Contains(s, symbol) ==
    \E i \in 1..Len(s) :
        SubSeq(s, i, i) = SubSeq(symbol, 1, 1) /\ StartsWithAt(s, i, symbol)

(***************************************************************************)
(* The knowledge base.  A pattern is the sequence of its alternatives, in  *)
(* the order the regular expression lists them.                            *)
(***************************************************************************)
VIEW_TYPE_PATTERNS ==
    <<
      [view_type |-> "floor_plan",
       patterns |-> <<
          <<"woonkamer", "slaapkamer", "keuken", "badkamer", "toilet", "gang", "berging", "garage", "kelder", "zolder">>,
          <<"living", "bedroom", "kitchen", "bathroom", "hall", "storage", "garage", "basement", "attic">>,
          <<"woon", "slaap", "bad", "wc", "gang", "berg", "gar", "kel", "zol">>,
          <<"kamer", "room", "suite", "studio", "appartement", "apartment">>
       >>],
      [view_type |-> "section",
       patterns |-> <<
          <<"doorsnede", "section", "doorsnee", "sectie", "profiel", "profile">>,
          <<"a-a", "b-b", "c-c", "d-d", "e-e", "f-f", "g-g", "h-h">>,
          <<"doorsnede", "section", "cut", "snede">>
       >>],
      [view_type |-> "detail",
       patterns |-> <<
          <<"detail", "detaal", "uitvergroting", "enlargement", "detailering">>,
          <<"1:10", "1:5", "1:2", "1:1", "1:20", "1:50">>,
          <<"detail", "detail", "uitwerk", "enlargement">>
       >>],
      [view_type |-> "installation",
       patterns |-> <<
          <<"wcd", "cai", "mv", "schakelaar", "thermostaat", "lichtpunt">>,
          <<"electrical", "plumbing", "ventilation", "switch", "thermostat", "light">>,
          <<"elektra", "sanitair", "ventilatie", "verwarming", "koeling">>,
          <<"socket", "outlet", "switch", "thermostat", "light", "ventilation">>
       >>],
      [view_type |-> "component_table",
       patterns |-> <<
          <<"merk", "type", "afmeting", "brand", "dimension", "materiaal">>,
          <<"tabel", "table", "specificatie", "specification", "lijst", "list">>,
          <<"product", "component", "element", "onderdeel", "part">>
       >>],
      [view_type |-> "elevation",
       patterns |-> <<
          <<"gevel", "elevation", "voorgevel", "achtergevel", "zijgevel">>,
          <<"facade", "front", "rear", "side", "elevation">>,
          <<"gevel", "elevation", "facade", "voor", "achter", "zij">>
       >>],
      [view_type |-> "site_plan",
       patterns |-> <<
          <<"terrein", "site", "perceel", "plot", "grondplan">>,
          <<"terrain", "site", "plot", "ground", "landscape">>,
          <<"terrein", "site", "perceel", "grond", "land">>
       >>],
      [view_type |-> "structural",
       patterns |-> <<
          <<"constructie", "structure", "fundering", "foundation">>,
          <<"beton", "concrete", "staal", "steel", "hout", "wood">>,
          <<"constructie", "structure", "fundering", "beton", "staal">>
       >>]
    >>

NumViewTypes == Len(VIEW_TYPE_PATTERNS)

\* the scale patterns: 1:(\d+), schaal\s*(\d+):(\d+), scale\s*(\d+):(\d+)
SCALE_PATTERNS ==
    << [groups |-> 1, word |-> ""],
       [groups |-> 2, word |-> "schaal"],
       [groups |-> 2, word |-> "scale"] >>

\* the dimension patterns, with the text of the regular expression
dimension_patterns ==
    << [regex |-> "(\\d+)\\s*mm",         unit |-> "mm", decimal |-> FALSE],
       [regex |-> "(\\d+)\\s*cm",         unit |-> "cm", decimal |-> FALSE],
       [regex |-> "(\\d+[,.]?\\d*)\\s*m", unit |-> "m",  decimal |-> TRUE] >>

\* scores in tenths
PATTERN_CONFIDENCE == 3
ROOM_LAYOUT_CONFIDENCE == 2
VERTICAL_LINES_CONFIDENCE == 2
LARGE_SCALE_CONFIDENCE == 3
ELECTRICAL_CONFIDENCE == 2
CONFIDENCE_CAP == 10

LARGE_AREA == 10000
MIN_LARGE_RECTANGLES == 2
VERTICAL_DX == 10
MIN_VERTICAL_LINES == 5
LARGE_SCALE_MAX == 20

\* typical_room_size = 3.6 (metres), in micrometres
typical_room_size == 3600000

electrical_symbols == <<"wcd", "lichtpunt", "schakelaar", "thermostaat">>

NO_MATCH_REASON == "No matching patterns detected"

(***************************************************************************)
(* Dictionaries with optional keys: d.get(key, default).                   *)
(***************************************************************************)
DictGet(d, key, default) == IF key \in DOMAIN d THEN d[key] ELSE default

EmptyDict == [k \in {} |-> 0]

Abs(n) == IF n < 0 THEN -n ELSE n

(***************************************************************************)
(* _detect_view_type_advanced: the score of one category.                  *)
(***************************************************************************)
GainPerMatch(matches) == PATTERN_CONFIDENCE * Len(matches)

\* confidence += 0.3, once for a pattern that matched
PatternGain(matches) == PATTERN_CONFIDENCE

RECURSIVE ScanPatterns(_, _, _, _)
\* for pattern in patterns: matches = re.findall(pattern, all_text) ...
ScanPatterns(patterns, all_text, k, acc) ==
    IF k > Len(patterns) THEN acc
    ELSE LET matches == FindAll(patterns[k], all_text)
         IN  ScanPatterns(patterns, all_text, k + 1,
                 IF matches # <<>>
                 THEN [confidence |-> acc.confidence + PatternGain(matches),
                       matched_keywords |-> acc.matched_keywords \o matches]
                 ELSE acc)

BonusWithoutToken(acc, amount, token) ==
    [confidence |-> acc.confidence + amount,
     matched_keywords |-> acc.matched_keywords]

\* confidence += amount; matched_keywords.append(token)
Bonus(acc, amount, token) ==
    [confidence |-> acc.confidence + amount,
     matched_keywords |-> Append(acc.matched_keywords, token)]

IsLargeRectangleInclusive(r) == DictGet(r, "area", 0) >= LARGE_AREA

\* r.get("area", 0) > 10000
IsLargeRectangle(r) == DictGet(r, "area", 0) > LARGE_AREA

\* abs(l.get("p2", {}).get("x", 0) - l.get("p1", {}).get("x", 0)) < 10
IsVerticalLine(l) ==
    Abs(DictGet(DictGet(l, "p2", EmptyDict), "x", 0)
        - DictGet(DictGet(l, "p1", EmptyDict), "x", 0)) < VERTICAL_DX

RECURSIVE ParseAll(_)
\* [int(s) for s in scale_matches]
ParseAll(strs) ==
    IF strs = <<>> THEN <<>> ELSE <<ParseInt(Head(strs))>> \o ParseAll(Tail(strs))

SeqRange(xs) == {xs[i] : i \in DOMAIN xs}

\* the layout analysis that follows the patterns of a category
LayoutAnalysis(view_type, acc, all_text, drawings) ==
    IF view_type = "floor_plan" THEN
        LET rectangles == DictGet(drawings, "rectangles", <<>>)
            large_rectangles == SelectSeq(rectangles, IsLargeRectangle)
        IN  IF Len(large_rectangles) > MIN_LARGE_RECTANGLES
            THEN Bonus(acc, ROOM_LAYOUT_CONFIDENCE, "room_layout")
            ELSE acc
    ELSE IF view_type = "section" THEN
        LET lines == DictGet(drawings, "lines", <<>>)
            vertical_lines == SelectSeq(lines, IsVerticalLine)
        IN  IF Len(vertical_lines) > MIN_VERTICAL_LINES
            THEN Bonus(acc, VERTICAL_LINES_CONFIDENCE, "vertical_lines")
            ELSE acc
    ELSE IF view_type = "detail" THEN
        LET scale_matches == FindAllOneToN(all_text)
            scales == ParseAll(scale_matches)
        IN  IF scale_matches # <<>> /\ \E s \in SeqRange(scales) : s <= LARGE_SCALE_MAX
            THEN Bonus(acc, LARGE_SCALE_CONFIDENCE,
                       "large_scale_1:" \o IntToStr(SetMin(SeqRange(scales))))
            ELSE acc
    ELSE IF view_type = "installation" THEN
        IF \E k \in DOMAIN electrical_symbols : Contains(all_text, electrical_symbols[k])
        THEN Bonus(acc, ELECTRICAL_CONFIDENCE, "electrical_symbols")
        ELSE acc
    ELSE acc

\* one iteration of the loop over VIEW_TYPE_PATTERNS, up to the comparison
CategoryScore(entry, all_text, drawings) ==
    LayoutAnalysis(entry.view_type,
                   ScanPatterns(entry.patterns, all_text, 1,
                                [confidence |-> 0, matched_keywords |-> <<>>]),
                   all_text, drawings)

IsHigherOrEqual(confidence, max_conf) == confidence >= max_conf

\* if confidence > max_confidence
IsHigher(confidence, max_conf) == confidence > max_conf

\* f"Pattern matches: {', '.join(matched_keywords)}"
PatternReason(matched_keywords) == "Pattern matches: " \o Join(", ", matched_keywords)

\* the running best after a category has been scored
UpdateBest(best, entry, score) ==
    IF IsHigher(score.confidence, best.max_confidence)
    THEN [max_confidence |-> score.confidence,
          best_view_type |-> entry.view_type,
          best_reason |-> PatternReason(score.matched_keywords),
          detected_keywords |-> score.matched_keywords]
    ELSE best

InitialBest ==
    [max_confidence |-> 0,
     best_view_type |-> "unknown",
     best_reason |-> NO_MATCH_REASON,
     detected_keywords |-> <<>>]

Uncapped(max_conf) == max_conf

\* min(max_confidence, 1.0)
CapConfidence(max_conf) == IF max_conf < CONFIDENCE_CAP THEN max_conf ELSE CONFIDENCE_CAP

\* round(x, 2) of a score in tenths: the confidence in hundredths
Round2(tenths) == 10 * tenths

(***************************************************************************)
(* Outcomes of a call: a returned value or a raised exception.             *)
(***************************************************************************)
Return(v) == [status |-> "return", value |-> v]
Raise(e)  == [status |-> "raise", error |-> e]

(***************************************************************************)
(* _extract_scale_from_texts                                               *)
(***************************************************************************)
NOT_DETECTED ==
    [scale_ratio |-> "unknown", scale_value |-> <<>>, source |-> "not_detected"]

\* re.findall(pattern, all_text, re.IGNORECASE) for a scale pattern
ScaleMatches(pattern, all_text) ==
    IF pattern.groups = 1 THEN FindAllOneToN(all_text)
    ELSE FindAllWordScale(pattern.word, all_text)

\* the return of the first scale pattern that matched, from matches[0]
ExplicitScale(pattern, matches) ==
    IF pattern.groups = 2
    THEN LET numerator   == ParseInt(matches[1][1])
             denominator == ParseInt(matches[1][2])
         IN  IF denominator = 0 THEN Raise("ZeroDivisionError")
             ELSE Return([scale_ratio |-> IntToStr(numerator) \o ":" \o IntToStr(denominator),
                          scale_value |-> Quotient(numerator, denominator),
                          source |-> "explicit_scale"])
    ELSE LET denominator == ParseInt(matches[1])
         IN  IF denominator = 0 THEN Raise("ZeroDivisionError")
             ELSE Return([scale_ratio |-> "1:" \o IntToStr(denominator),
                          scale_value |-> Quotient(1, denominator),
                          source |-> "explicit_scale"])

RECURSIVE ReplaceCommaFrom(_, _)
ReplaceCommaFrom(s, i) ==
    IF i > Len(s) THEN ""
    ELSE (IF Char(s, i) = "," THEN "." ELSE Char(s, i)) \o ReplaceCommaFrom(s, i + 1)

\* float(s.replace(',', '.')) of digits[.digits], in micrometres
ParseMetres(s) ==
    LET t    == ReplaceCommaFrom(s, 1)
        e    == DigitsEnd(t, 1)
        frac == IF e <= Len(t) THEN SubSeq(t, e + 1, Len(t)) ELSE ""
    IN  ParseInt(SubSeq(t, 1, e - 1) \o frac) * Pow10(6 - Len(frac))

\* detected_size after the unit conversion, in micrometres
DetectedSize(pattern, match) ==
    IF Contains(pattern.regex, "mm") THEN ParseMetres(match) \div 1000
    ELSE IF Contains(pattern.regex, "cm") THEN ParseMetres(match) \div 100
    ELSE ParseMetres(match)

AnySize(detected_size) == TRUE

\* if detected_size > 0
IsPositiveSize(detected_size) == detected_size > 0

\* scale_value = detected_size / typical_room_size; int(1 / scale_value)
DimensionScale(detected_size) ==
    IF detected_size = 0 THEN Raise("ZeroDivisionError")
    ELSE Return([scale_ratio |-> "1:" \o IntToStr(typical_room_size \div detected_size),
                 scale_value |-> Quotient(detected_size, typical_room_size),
                 source |-> "dimension_inference",
                 detected_dimension |-> detected_size])

RECURSIVE ScanDimensionPatterns(_, _)
\* for pattern in dimension_patterns: ... ; return not_detected
ScanDimensionPatterns(all_text, k) ==
    IF k > Len(dimension_patterns) THEN Return(NOT_DETECTED)
    ELSE LET pattern == dimension_patterns[k]
             matches == FindAllDimension(pattern.unit, pattern.decimal, all_text)
         IN  IF matches # <<>> /\ IsPositiveSize(DetectedSize(pattern, matches[1]))
             THEN DimensionScale(DetectedSize(pattern, matches[1]))
             ELSE ScanDimensionPatterns(all_text, k + 1)

RECURSIVE ScanScalePatterns(_, _)
\* for pattern in SCALE_PATTERNS: ... ; then the dimension patterns
ScanScalePatterns(all_text, k) ==
    IF k > Len(SCALE_PATTERNS) THEN ScanDimensionPatterns(all_text, 1)
    ELSE LET matches == ScaleMatches(SCALE_PATTERNS[k], all_text)
         IN  IF matches # <<>> THEN ExplicitScale(SCALE_PATTERNS[k], matches)
             ELSE ScanScalePatterns(all_text, k + 1)

extract_scale_from_texts(txts) == ScanScalePatterns(Join(" ", txts), 1)

(***************************************************************************)
(* _detect_view_type_advanced as one function.                             *)
(***************************************************************************)
\* all_text = " ".join([text.lower() for text in texts])
Normalize(txts) == Join(" ", MapLower(txts))

RECURSIVE ScoreFrom(_, _, _, _)
\* the loop over VIEW_TYPE_PATTERNS from category k on
ScoreFrom(all_txt, drws, k, best) ==
    IF k > NumViewTypes THEN best
    ELSE ScoreFrom(all_txt, drws, k + 1,
                   UpdateBest(best, VIEW_TYPE_PATTERNS[k],
                              CategoryScore(VIEW_TYPE_PATTERNS[k], all_txt, drws)))

Scoring(txts, drws) == ScoreFrom(Normalize(txts), drws, 1, InitialBest)

\* the dictionary the function returns
ResultRecord(best, scl) ==
    [view_type |-> best.best_view_type,
     confidence |-> Round2(CapConfidence(best.max_confidence)),
     reason |-> best.best_reason,
     scale |-> scl,
     detected_keywords |-> best.detected_keywords]

detect_view_type_advanced(txts, drws) ==
    LET best == Scoring(txts, drws)
        scl  == extract_scale_from_texts(txts)
    IN  IF scl.status = "raise" THEN scl ELSE Return(ResultRecord(best, scl.value))

(***************************************************************************)
(* Inputs.                                                                 *)
(***************************************************************************)
\* the text fragments a page draws its texts from
Fragments ==
    { "Woonkamer", "wcd scale 3:50", "detail 1:5", "1:50", "1:0",
      "Doorsnede A-A Schaal 2:100", "0 mm", "5 cm", "3,6 m" }

TextLists == UNION { [1..n -> Fragments] : n \in 0..MaxTexts }

Rect(a) == [area |-> a]
Line(x1, x2) == [p1 |-> [x |-> x1, y |-> 0], p2 |-> [x |-> x2, y |-> 100]]

\* the drawing dictionaries a page draws its geometry from
DrawingSamples ==
    { EmptyDict,
      [rectangles |-> <<Rect(15000), Rect(16000), Rect(10000), [width |-> 5]>>,
       lines |-> <<Line(0, 0), Line(5, 5), Line(7, 7), Line(20, 20), Line(30, 30),
                   Line(40, 50)>>],
      [rectangles |-> <<Rect(15000), Rect(10001), Rect(16000)>>],
      [lines |-> <<Line(0, 9), Line(9, 0), Line(7, 7), Line(20, 20), Line(30, 30),
                   [p1 |-> [x |-> 3, y |-> 0]]>>] }

(***************************************************************************)
(* State.                                                                  *)
(***************************************************************************)
VARIABLES
    pc,                 \* where the call stands
    texts,              \* argument of _detect_view_type_advanced
    drawings,           \* argument of _detect_view_type_advanced
    all_text,           \* locals of _detect_view_type_advanced
    view_index,         \* position of the loop over VIEW_TYPE_PATTERNS
    category_scores,    \* confidence and matched_keywords of the iterations so far
    max_confidence,
    best_view_type,
    best_reason,
    detected_keywords,
    scale,              \* outcome of _extract_scale_from_texts
    result,             \* outcome of _detect_view_type_advanced
    pages,              \* request.pages of detect_view_type
    page_index,         \* position of the loop over request.pages
    results,            \* local of detect_view_type
    response            \* what detect_view_type answers

callVars == <<texts, drawings, all_text, view_index, category_scores, max_confidence,
              best_view_type, best_reason, detected_keywords, scale, result>>
batchVars == <<pages, page_index, results, response>>
vars == <<pc, callVars, batchVars>>

Pending == [status |-> "pending"]

CallIdle ==
    /\ all_text = ""
    /\ view_index = 0
    /\ category_scores = <<>>
    /\ max_confidence = 0
    /\ best_view_type = "unknown"
    /\ best_reason = NO_MATCH_REASON
    /\ detected_keywords = <<>>
    /\ scale = Pending
    /\ result = Pending

BatchIdle ==
    /\ pages = <<>>
    /\ page_index = 0
    /\ results = <<>>
    /\ response = Pending

(***************************************************************************)
(* One call of _detect_view_type_advanced.                                 *)
(***************************************************************************)
Init ==
    /\ pc = "start"
    /\ texts \in TextLists
    /\ drawings \in DrawingSamples
    /\ CallIdle
    /\ BatchIdle

\* lines 139-143: the pooled text and the initial best
NormalizeText ==
    /\ pc = "start"
    /\ all_text' = Normalize(texts)
    /\ max_confidence' = InitialBest.max_confidence
    /\ best_view_type' = InitialBest.best_view_type
    /\ best_reason' = InitialBest.best_reason
    /\ detected_keywords' = InitialBest.detected_keywords
    /\ view_index' = 1
    /\ pc' = "loop"
    /\ UNCHANGED <<texts, drawings, category_scores, scale, result, batchVars>>

\* lines 146-194: one iteration of the loop over the view types
ScoreViewType ==
    /\ pc = "loop"
    /\ view_index <= NumViewTypes
    /\ LET entry == VIEW_TYPE_PATTERNS[view_index]
           score == CategoryScore(entry, all_text, drawings)
           best  == UpdateBest([max_confidence |-> max_confidence,
                                best_view_type |-> best_view_type,
                                best_reason |-> best_reason,
                                detected_keywords |-> detected_keywords],
                               entry, score)
       IN  /\ category_scores' = Append(category_scores, score)
           /\ max_confidence' = best.max_confidence
           /\ best_view_type' = best.best_view_type
           /\ best_reason' = best.best_reason
           /\ detected_keywords' = best.detected_keywords
    /\ view_index' = view_index + 1
    /\ pc' = IF view_index = NumViewTypes THEN "scale" ELSE "loop"
    /\ UNCHANGED <<texts, drawings, all_text, scale, result, batchVars>>

\* line 197: the scale, or the exception that leaves the function
ExtractScale ==
    /\ pc = "scale"
    /\ scale' = extract_scale_from_texts(texts)
    /\ result' = IF scale'.status = "raise" THEN scale' ELSE result
    /\ pc' = IF scale'.status = "raise" THEN "raised" ELSE "return"
    /\ UNCHANGED <<texts, drawings, all_text, view_index, category_scores, max_confidence,
                   best_view_type, best_reason, detected_keywords, batchVars>>

\* lines 199-208: the cap and the returned dictionary
ReturnResult ==
    /\ pc = "return"
    /\ max_confidence' = CapConfidence(max_confidence)
    /\ result' = Return([view_type |-> best_view_type,
                         confidence |-> Round2(max_confidence'),
                         reason |-> best_reason,
                         scale |-> scale.value,
                         detected_keywords |-> detected_keywords])
    /\ pc' = "done"
    /\ UNCHANGED <<texts, drawings, all_text, view_index, category_scores,
                   best_view_type, best_reason, detected_keywords, scale, batchVars>>

Next == NormalizeText \/ ScoreViewType \/ ExtractScale \/ ReturnResult

Spec == Init /\ [][Next]_vars

(***************************************************************************)
(* The same call on fewer inputs, for the properties that compare a call   *)
(* with the calls on every reordering of its texts.                        *)
(***************************************************************************)
OrderFragments == { "Woonkamer", "wcd scale 3:50", "detail 1:5", "1:50", "3,6 m" }

OrderTextLists == UNION { [1..n -> OrderFragments] : n \in 0..MaxTexts }

OrderDrawings ==
    { EmptyDict, [rectangles |-> <<Rect(15000), Rect(10001), Rect(16000)>>] }

OrderInit ==
    /\ pc = "start"
    /\ texts \in OrderTextLists
    /\ drawings \in OrderDrawings
    /\ CallIdle
    /\ BatchIdle

OrderSpec == OrderInit /\ [][Next]_vars

(***************************************************************************)
(* detect_view_type: the handler of a batch of pages.                      *)
(***************************************************************************)
\* the pages a request draws from; the third has a fragment without "text"
SamplePages ==
    { [page_number |-> 1,
       texts |-> <<[text |-> "Woonkamer"], [text |-> "3,6 m"]>>,
       drawings |-> [rectangles |-> <<Rect(15000), Rect(16000)>>]],
      [page_number |-> 2,
       texts |-> <<[text |-> "Doorsnede A-A Schaal 2:100"]>>,
       drawings |-> [lines |-> <<Line(0, 0), Line(5, 5), Line(7, 7), Line(20, 20),
                                 Line(30, 30), Line(40, 41)>>]],
      [page_number |-> 3,
       texts |-> <<[text |-> "detail 1:5"], [bbox |-> 0]>>,
       drawings |-> EmptyDict],
      [page_number |-> 4,
       texts |-> <<[text |-> "wcd scale 3:50"], [text |-> "0 mm"]>>,
       drawings |-> EmptyDict],
      [page_number |-> 5,
       texts |-> <<>>,
       drawings |-> EmptyDict] }

PageLists == UNION { [1..n -> SamplePages] : n \in 0..MaxPages }

RECURSIVE TextsOf(_)
\* [t["text"] for t in page_data.texts], every entry having the key
TextsOf(entries) ==
    IF entries = <<>> THEN <<>> ELSE <<Head(entries).text>> \o TextsOf(Tail(entries))

\* lines 107-110 for one page: a KeyError, or the outcome of the detection
PageOutcome(page) ==
    IF \E i \in DOMAIN page.texts : "text" \notin DOMAIN page.texts[i]
    THEN Raise("KeyError")
    ELSE detect_view_type_advanced(TextsOf(page.texts), page.drawings)

\* lines 112-119: the entry appended to results
PageRecord(page, view_type_result) ==
    [page_number |-> page.page_number,
     view_type |-> view_type_result.view_type,
     confidence |-> view_type_result.confidence,
     reason |-> view_type_result.reason,
     scale |-> view_type_result.scale,
     detected_keywords |-> view_type_result.detected_keywords]

BatchInit ==
    /\ pc = "pages"
    /\ pages \in PageLists
    /\ page_index = 1
    /\ results = <<>>
    /\ response = Pending
    /\ texts = <<>>
    /\ drawings = EmptyDict
    /\ CallIdle

\* lines 103-119: one iteration of the loop over the pages
ClassifyPage ==
    /\ pc = "pages"
    /\ page_index <= Len(pages)
    /\ PageOutcome(pages[page_index]).status = "return"
    /\ results' = Append(results,
                         PageRecord(pages[page_index], PageOutcome(pages[page_index]).value))
    /\ page_index' = page_index + 1
    /\ UNCHANGED <<pc, pages, response, callVars>>

\* lines 124-126: an exception in the loop becomes HTTPException(500)
FailPage ==
    /\ pc = "pages"
    /\ page_index <= Len(pages)
    /\ PageOutcome(pages[page_index]).status = "raise"
    /\ response' = [status_code |-> 500, detail |-> PageOutcome(pages[page_index]).error]
    /\ pc' = "responded"
    /\ UNCHANGED <<pages, page_index, results, callVars>>

\* lines 121-122: the loop is over
ReturnPages ==
    /\ pc = "pages"
    /\ page_index > Len(pages)
    /\ response' = [status_code |-> 200, pages |-> results]
    /\ pc' = "responded"
    /\ UNCHANGED <<pages, page_index, results, callVars>>

BatchNext == ClassifyPage \/ FailPage \/ ReturnPages

BatchSpec == BatchInit /\ [][BatchNext]_vars

(***************************************************************************)
(* Properties.                                                             *)
(***************************************************************************)
Returned == pc = "done"

ViewTypeIndex(view_type) ==
    CHOOSE k \in 1..NumViewTypes : VIEW_TYPE_PATTERNS[k].view_type = view_type

\* a pattern matches somewhere iff one of its alternatives occurs in the text
PatternOccurs(alts, s) == \E a \in DOMAIN alts : Contains(s, alts[a])

MatchedPatterns(k) ==
    {j \in DOMAIN VIEW_TYPE_PATTERNS[k].patterns :
        PatternOccurs(VIEW_TYPE_PATTERNS[k].patterns[j], all_text)}

\* C1: the confidence a call returns is a whole number of hundredths between
\* 0.00 and 1.00, also when the winning score is above 1.0.
ConfidenceInRange ==
    Returned => result.value.confidence \in 0..100

WitnessCappedConfidence ==
    /\ Returned
    /\ result.value.confidence = 100
    /\ category_scores[ViewTypeIndex(result.value.view_type)].confidence > CONFIDENCE_CAP

\* C2: in a returned record, view_type is "unknown" iff detected_keywords is
\* empty iff reason is "No matching patterns detected".
UnknownIffNoKeywords ==
    Returned =>
        /\ (result.value.view_type = "unknown") <=> (result.value.detected_keywords = <<>>)
        /\ (result.value.detected_keywords = <<>>) <=> (result.value.reason = NO_MATCH_REASON)

WitnessGeometryOnlyWin ==
    /\ Returned
    /\ result.value.view_type \in {"floor_plan", "section"}
    /\ MatchedPatterns(ViewTypeIndex(result.value.view_type)) = {}
    /\ result.value.detected_keywords \in {<<"room_layout">>, <<"vertical_lines">>}

MaxScore == CHOOSE m \in {category_scores[k].confidence : k \in 1..NumViewTypes} :
                \A k \in 1..NumViewTypes : category_scores[k].confidence <= m

FirstWithMaxScore ==
    CHOOSE k \in 1..NumViewTypes :
        /\ category_scores[k].confidence = MaxScore
        /\ \A j \in 1..(k - 1) : category_scores[j].confidence # MaxScore

\* C3: the reported view_type is the first category in catalog order whose
\* uncapped score is the maximum, when that maximum is positive, and
\* "unknown" otherwise.
FirstMaximumWins ==
    Returned =>
        result.value.view_type =
            IF MaxScore > 0 THEN VIEW_TYPE_PATTERNS[FirstWithMaxScore].view_type
            ELSE "unknown"

WitnessTieKeepsEarlier ==
    /\ Returned
    /\ MaxScore > 0
    /\ \E k \in 1..NumViewTypes :
          /\ k > FirstWithMaxScore
          /\ category_scores[k].confidence = MaxScore
    /\ result.value.view_type = VIEW_TYPE_PATTERNS[FirstWithMaxScore].view_type

WitnessLaterHigherAboveCap ==
    /\ Returned
    /\ \E j, k \in 1..NumViewTypes :
          /\ j < k
          /\ category_scores[j].confidence > CONFIDENCE_CAP
          /\ category_scores[k].confidence > category_scores[j].confidence
          /\ result.value.view_type = VIEW_TYPE_PATTERNS[k].view_type

\* C4: when the handler has answered, every page whose own classification
\* succeeds has its result record in the answer, whatever happens to the
\* other pages of the batch.
SiblingPagesReturned ==
    pc = "responded" =>
        \A i \in DOMAIN pages :
            PageOutcome(pages[i]).status = "return" =>
                /\ response.status_code = 200
                /\ \E j \in DOMAIN response.pages :
                      response.pages[j] = PageRecord(pages[i], PageOutcome(pages[i]).value)

WellFormedGeometry ==
    /\ \A i \in DOMAIN DictGet(drawings, "rectangles", <<>>) :
          "area" \in DOMAIN drawings.rectangles[i]
    /\ \A i \in DOMAIN DictGet(drawings, "lines", <<>>) :
          /\ {"p1", "p2"} \subseteq DOMAIN drawings.lines[i]
          /\ "x" \in DOMAIN drawings.lines[i].p1
          /\ "x" \in DOMAIN drawings.lines[i].p2

\* C5: a call whose texts are all strings and whose geometry is well formed
\* never raises.
WellFormedNeverRaises ==
    WellFormedGeometry => pc # "raised"

Permuted(txts, p) == [i \in DOMAIN txts |-> txts[p[i]]]

KeywordBag(kws) ==
    [w \in SeqRange(kws) |-> Cardinality({i \in DOMAIN kws : kws[i] = w})]

\* C6 (as stated):  the record returned for a list of texts is the outcome of
\* the call on every reordering of the list.
OrderIndependentRecord ==
    Returned =>
        \A p \in Permutations(DOMAIN texts) :
            detect_view_type_advanced(Permuted(texts, p), drawings) = result

\* C6 (amended): the scoring of every reordering of the texts ends with the
\* same view type, the same confidence and the same keywords up to their
\* order.
OrderIndependentScoring ==
    pc = "scale" =>
        \A p \in Permutations(DOMAIN texts) :
            LET other == Scoring(Permuted(texts, p), drawings)
            IN  /\ other.best_view_type = best_view_type
                /\ other.max_confidence = max_confidence
                /\ Round2(CapConfidence(other.max_confidence))
                      = Round2(CapConfidence(max_confidence))
                /\ KeywordBag(other.detected_keywords) = KeywordBag(detected_keywords)

WitnessReorderedKeywords ==
    /\ pc = "scale"
    /\ Len(texts) >= 2
    /\ max_confidence > 0
    /\ \E p \in Permutations(DOMAIN texts) :
          Scoring(Permuted(texts, p), drawings).detected_keywords # detected_keywords

ScaleExtracted == pc \in {"return", "done", "raised"}

RawText == Join(" ", texts)

ExplicitMatches(k) == ScaleMatches(SCALE_PATTERNS[k], RawText)

MatchingScalePatterns == {k \in DOMAIN SCALE_PATTERNS : ExplicitMatches(k) # <<>>}

DimensionMatches(k) ==
    FindAllDimension(dimension_patterns[k].unit, dimension_patterns[k].decimal, RawText)

\* the value of the first match of dimension pattern k, in micrometres
FirstDimension(k) == DetectedSize(dimension_patterns[k], DimensionMatches(k)[1])

ZeroDimensionPatterns ==
    {k \in DOMAIN dimension_patterns : DimensionMatches(k) # <<>> /\ FirstDimension(k) = 0}

PositiveDimensionPatterns ==
    {k \in DOMAIN dimension_patterns : DimensionMatches(k) # <<>> /\ FirstDimension(k) > 0}

\* the ratio string the claim gives the first match of scale pattern k
ClaimedRatio(k) ==
    IF k = 1 THEN "1:" \o IntToStr(ParseInt(ExplicitMatches(k)[1]))
    ELSE IntToStr(ParseInt(ExplicitMatches(k)[1][1])) \o ":"
             \o IntToStr(ParseInt(ExplicitMatches(k)[1][2]))

\* C7: the first scale pattern with a match decides the result from its first
\* match, with source explicit_scale; the dimension patterns count only when
\* no scale pattern matches; not_detected exactly when nothing matches and no
\* dimension pattern yields a positive value.
ScalePrecedence ==
    ScaleExtracted =>
        IF MatchingScalePatterns # {}
        THEN /\ scale.status = "return"
             /\ scale.value.source = "explicit_scale"
             /\ scale.value.scale_ratio = ClaimedRatio(SetMin(MatchingScalePatterns))
        ELSE /\ scale.status = "return"
             /\ (scale.value.source = "not_detected") <=> (PositiveDimensionPatterns = {})
             /\ (scale.value.source = "dimension_inference") <=> (PositiveDimensionPatterns # {})
             /\ (scale.value.source = "not_detected") => (scale.value = NOT_DETECTED)

ClaimedBonus(view_type) ==
    IF view_type \in {"floor_plan", "section", "installation"} THEN 2
    ELSE IF view_type = "detail" THEN 3
    ELSE 0

\* the tokens of the layout heuristics; no pattern of the catalog matches one
IsHeuristicToken(w) ==
    \/ w \in {"room_layout", "vertical_lines", "electrical_symbols"}
    \/ StartsWithAt(w, 1, "large_scale_1:")

HeuristicFired(k) ==
    /\ category_scores[k].matched_keywords # <<>>
    /\ IsHeuristicToken(category_scores[k].matched_keywords[Len(category_scores[k].matched_keywords)])

RECURSIVE AllMatches(_, _)
\* the matches of the patterns j.. of category k, in the order of the patterns
AllMatches(k, j) ==
    IF j > Len(VIEW_TYPE_PATTERNS[k].patterns) THEN <<>>
    ELSE FindAll(VIEW_TYPE_PATTERNS[k].patterns[j], all_text) \o AllMatches(k, j + 1)

\* C8: the score of a category is 0.3 for each of its patterns that occurs in
\* the pooled text, plus its bonus when its heuristic fired, however often a
\* pattern matches; the keywords are all the matches, repeated as matched,
\* followed by the token of the heuristic.
ScoreCountsPatternsOnce ==
    pc = "scale" =>
        \A k \in 1..NumViewTypes :
            LET fired == HeuristicFired(k)
                kws   == category_scores[k].matched_keywords
            IN  /\ category_scores[k].confidence =
                       3 * Cardinality(MatchedPatterns(k))
                         + (IF fired THEN ClaimedBonus(VIEW_TYPE_PATTERNS[k].view_type) ELSE 0)
                /\ fired => ClaimedBonus(VIEW_TYPE_PATTERNS[k].view_type) > 0
                /\ (IF fired THEN SubSeq(kws, 1, Len(kws) - 1) ELSE kws) = AllMatches(k, 1)

WitnessRepeatedMatch ==
    /\ pc = "scale"
    /\ \E k \in 1..NumViewTypes : \E j \in DOMAIN VIEW_TYPE_PATTERNS[k].patterns :
          /\ Len(FindAll(VIEW_TYPE_PATTERNS[k].patterns[j], all_text)) >= 2
          /\ HeuristicFired(k)
          /\ category_scores[k].confidence > 0

LargeRectangleCount ==
    Cardinality({i \in DOMAIN DictGet(drawings, "rectangles", <<>>) :
                    /\ "area" \in DOMAIN drawings.rectangles[i]
                    /\ drawings.rectangles[i].area > 10000})

XOf(l, end) == IF end \in DOMAIN l /\ "x" \in DOMAIN l[end] THEN l[end].x ELSE 0

VerticalLineCount ==
    Cardinality({i \in DOMAIN DictGet(drawings, "lines", <<>>) :
                    /\ XOf(drawings.lines[i], "p2") - XOf(drawings.lines[i], "p1") < 10
                    /\ XOf(drawings.lines[i], "p1") - XOf(drawings.lines[i], "p2") < 10})

HasToken(k, token) ==
    \E i \in DOMAIN category_scores[k].matched_keywords :
        category_scores[k].matched_keywords[i] = token

\* C9: floor_plan gets "room_layout" and 0.2 iff more than 2 rectangles have
\* an area above 10000; section gets "vertical_lines" and 0.2 iff more than 5
\* lines have end points whose x differ by less than 10.
StrictGeometryThresholds ==
    Len(category_scores) >= 2 =>
        /\ HasToken(1, "room_layout") <=> (LargeRectangleCount > 2)
        /\ category_scores[1].confidence - 3 * Cardinality(MatchedPatterns(1))
              = IF LargeRectangleCount > 2 THEN 2 ELSE 0
        /\ HasToken(2, "vertical_lines") <=> (VerticalLineCount > 5)
        /\ category_scores[2].confidence - 3 * Cardinality(MatchedPatterns(2))
              = IF VerticalLineCount > 5 THEN 2 ELSE 0

WitnessBoundaryGeometry ==
    /\ Len(category_scores) >= 2
    /\ LargeRectangleCount = 2
    /\ \E i \in DOMAIN DictGet(drawings, "rectangles", <<>>) :
          DictGet(drawings.rectangles[i], "area", 0) = 10000
    /\ VerticalLineCount = 5
    /\ Len(DictGet(drawings, "lines", <<>>)) > 5
    /\ ~HasToken(1, "room_layout")
    /\ ~HasToken(2, "vertical_lines")

\* C10: with no scale notation in the text, a dimension pattern whose first
\* value is zero gives no result and raises nothing; the first pattern with a
\* positive value decides, and without one the result is not_detected.
ZeroDimensionSkipped ==
    (ScaleExtracted /\ MatchingScalePatterns = {} /\ ZeroDimensionPatterns # {}) =>
        /\ scale.status = "return"
        /\ IF PositiveDimensionPatterns = {}
           THEN scale.value = NOT_DETECTED
           ELSE /\ scale.value.source = "dimension_inference"
                /\ scale.value.detected_dimension
                      = FirstDimension(SetMin(PositiveDimensionPatterns))

WitnessZeroThenPositive ==
    /\ pc = "done"
    /\ MatchingScalePatterns = {}
    /\ ZeroDimensionPatterns # {}
    /\ PositiveDimensionPatterns # {}
    /\ SetMin(ZeroDimensionPatterns) < SetMin(PositiveDimensionPatterns)
    /\ result.value.scale.source = "dimension_inference"

====
